---- MODULE Spec2Model ----
(***************************************************************************)
(* State-machine model of TextAdventurePlugin (src/main.py).               *)
(*                                                                         *)
(* Every accepted invocation of start_adventure is a "session", numbered   *)
(* in the order of acceptance.  A session owns its locals: user_id (owner),*)
(* game_state (ctx), the SessionController of its adventure_waiter         *)
(* (identified by the session number, fut is its future) and two           *)
(* positions: pc, the position of the start_adventure coroutine, and hpc,  *)
(* the position of the running adventure_waiter callback.  The only shared *)
(* state is the dictionary active_game_sessions.  Code between two         *)
(* awaits/yields runs atomically (asyncio), so every action is one such    *)
(* stretch of code.  When start_adventure has ended and no callback of the *)
(* session is running, the locals are gone: the session keeps only how it  *)
(* ended (pc) and the closing notice it delivered.                         *)
(*                                                                         *)
(* The session_waiter utility is used through its interface: the callback  *)
(* is invoked for one message at a time while the waiter's future is       *)
(* pending; controller.stop() resolves the future; expiry of the per-turn  *)
(* window, at any time while the future is pending, makes the awaited      *)
(* waiter raise asyncio.TimeoutError; an                                   *)
(* exception escaping the callback is re-raised from the awaited waiter.   *)
(* The waiter of a session receives the messages of the session's owner.   *)
(* Sending a message succeeds, except that the send of line 142 may raise: *)
(* it stands for the unexpected errors that escape the callback.           *)
(***************************************************************************)
EXTENDS Integers, Sequences, FiniteSets, TLC

\* ---- bounds ----
MaxTurns == 1       \* turns (non-empty player actions) of one session

Users == {"u1", "u2"}
Sessions == {1, 2}  \* the accepted start commands of one behaviour

\* ---- values of the dictionary active_game_sessions ----
NoEntry == -1       \* key is not in the dictionary
None == 0           \* the placeholder of line 182; a controller is its session number
KeyError == -2      \* `del` was applied to a key that is not in the dictionary

\* ---- messages: sequences of characters ----
Blank == " "
Slash == "/"
Messages == { <<Blank>>, <<"g">>, <<Blank, "g", Blank>>, <<Slash, "e">> }

RECURSIVE LStrip(_)
LStrip(m) == IF m # <<>> /\ Head(m) = Blank THEN LStrip(Tail(m)) ELSE m

RECURSIVE RStrip(_)
RStrip(m) ==
    IF m # <<>> /\ m[Len(m)] = Blank THEN RStrip(SubSeq(m, 1, Len(m) - 1)) ELSE m

Strip(m) == RStrip(LStrip(m))

IsCommand(m) == m # <<>> /\ Head(m) = Slash

SystemPrompt == <<"P">>
OpeningRequest == <<"Q">>
StoryText == <<"T">>

Msg(role, content) == [role |-> role, content |-> content]

\* a transcript that forgets the generated text
WithReplyDropped(ctx, text) == ctx

\* lines 105 and 152: the generated text is appended as the assistant's message
WithReply(ctx, text) == Append(ctx, Msg("assistant", text))

VARIABLES
    active_game_sessions,   \* [Users -> {NoEntry, None} \cup Sessions]: the dictionary; KeyError marks a failed del
    session,                \* [Sessions -> the locals and positions of one start_adventure]
    placedBy,               \* history: [Users -> session that wrote the user's entry, 0 if none]
    reply,                  \* history: the reply yielded by the last step (NoReply if none)
    observed                \* which history the specification records; never changes

vars == << active_game_sessions, session, placedBy, reply, observed >>

\* A session before start_adventure is invoked
Fresh ==
    [ owner |-> "nobody",       \* user_id
      pc |-> "idle",            \* position in start_adventure
      fut |-> "none",           \* the future of the session's waiter
      hpc |-> "idle",           \* position in adventure_waiter
      player_action |-> <<>>,   \* the stripped message being processed
      ctx |-> <<>>,             \* game_state["llm_conversation_context"]
      genCalls |-> 0,           \* text_chat invocations
      stories |-> 0,            \* story messages delivered
      notices |-> <<>>,         \* closing notices delivered
      marks |-> {} ]            \* history: stop commands acknowledged since the callback
                                \*   last returned, with the phase they met

Ended == {"done", "aborted"}

\* the locals of an ended session whose callback is not running are dropped
Settle(r) ==
    IF r.pc \in Ended /\ r.hpc = "idle"
    THEN [Fresh EXCEPT !.pc = r.pc, !.notices = r.notices]
    ELSE r

\* `user_id in self.active_game_sessions`
Contains(d, k) == d[k] # NoEntry

\* `del self.active_game_sessions[user_id]`: raises KeyError for a missing key
Del(d, k) == [d EXCEPT ![k] = IF @ = NoEntry THEN KeyError ELSE NoEntry]

\* a pop that leaves the placeholder in the dictionary
PopIfController(d, k) == [d EXCEPT ![k] = IF @ = None THEN @ ELSE NoEntry]

\* `self.active_game_sessions.pop(user_id, None)`: a missing key is no error
Pop(d, k) == [d EXCEPT ![k] = NoEntry]

\* `if controller:` -- None is falsy, a SessionController is truthy
IsController(c) == c \in Sessions

\* a stop() that fails on a future that is already done
StopUnguarded(f) == IF f = "pending" THEN "result" ELSE "error"

\* controller.stop(): resolves the waiter's future unless it is already done
Stop(f) == IF f = "pending" THEN "result" ELSE f

\* an exception escaping the callback ends the waiter with that exception
StopWithError(f) == IF f = "pending" THEN "error" ELSE f

\* the writer of each entry of the dictionary d, given the writers p before
Writers(p, d) == [u \in Users |-> IF Contains(d, u) THEN p[u] ELSE 0]

Reply(u, text, n) == [to |-> u, text |-> text, n |-> n]

NoReply == Reply("nobody", "none", 0)

\* the reply of the step: a command handler yields r, any other step NoReply
Replies(r) == reply' = IF "replies" \in observed THEN r ELSE reply

InitWith(h) ==
    /\ active_game_sessions = [u \in Users |-> NoEntry]
    /\ session = [s \in Sessions |-> Fresh]
    /\ placedBy = [u \in Users |-> 0]
    /\ reply = NoReply
    /\ observed = h

Init == InitWith({})

\* session s takes a step to the locals r
Step(s, r) == session' = [session EXCEPT ![s] = Settle(r)]

(***************************************************************************)
(* start_adventure, up to the registration of the waiter                   *)
(***************************************************************************)

\* The first unused session slot
NextSession(s) ==
    /\ session[s].pc = "idle"
    /\ \A t \in Sessions : t < s => session[t].pc # "idle"

\* a duplicate check that takes the placeholder for "no adventure"
IsDuplicateIfController(d, u) == IsController(d[u])

\* line 58: the duplicate check of start_adventure
IsDuplicate(d, u) == Contains(d, u)

\* lines 55-60: the duplicate check finds an entry; the command is refused
StartRefused(u) ==
    /\ IsDuplicate(active_game_sessions, u)
    /\ Replies(Reply(u, "duplicate", 0))
    /\ UNCHANGED << active_game_sessions, session, placedBy, observed >>

\* lines 55-73: the duplicate check passes; the disclaimer is yielded
StartAccepted(s, u) ==
    /\ NextSession(s)
    /\ ~IsDuplicate(active_game_sessions, u)
    /\ Step(s, [session[s] EXCEPT !.owner = u, !.pc = "disclaimer"])
    /\ Replies(Reply(u, "disclaimer", 0))
    /\ UNCHANGED << active_game_sessions, placedBy, observed >>

\* lines 75-99: the context is initialised; without a provider the command ends
\* (91-94), otherwise the opening text_chat call is issued
StartOpening(s) ==
    /\ session[s].pc = "disclaimer"
    /\ LET r == [session[s] EXCEPT !.ctx = << Msg("system", SystemPrompt),
                                              Msg("user", OpeningRequest) >>]
       IN  \E provider \in BOOLEAN :
              IF provider
              THEN Step(s, [r EXCEPT !.pc = "llm_open", !.genCalls = @ + 1])
              ELSE Step(s, [r EXCEPT !.pc = "aborted",
                                     !.notices = Append(@, "start_error")])
    /\ Replies(NoReply)
    /\ UNCHANGED << active_game_sessions, placedBy, observed >>

\* lines 99-105 and 119-122: the opening call returns or raises
OpeningReturns(s) ==
    /\ session[s].pc = "llm_open"
    /\ \E ok \in BOOLEAN :
          IF ok
          THEN Step(s, [session[s] EXCEPT
                           !.ctx = WithReply(@, StoryText),
                           !.pc = "send_open"])
          ELSE Step(s, [session[s] EXCEPT
                           !.pc = "aborted",
                           !.notices = Append(@, "start_error")])
    /\ Replies(NoReply)
    /\ UNCHANGED << active_game_sessions, placedBy, observed >>

\* lines 107-117 complete (the scene is sent as image or as fallback text), then
\* lines 180-183: the placeholder is written and the waiter is awaited
EnterLoop(s) ==
    /\ session[s].pc = "send_open"
    /\ active_game_sessions' = [active_game_sessions EXCEPT ![session[s].owner] = None]
    /\ placedBy' = [placedBy EXCEPT ![session[s].owner] = s]
    /\ Step(s, [session[s] EXCEPT !.stories = @ + 1, !.fut = "pending",
                                  !.pc = "waiting"])
    /\ Replies(NoReply)
    /\ UNCHANGED observed

(***************************************************************************)
(* adventure_waiter: the callback run for one message of the owner         *)
(***************************************************************************)

\* turns of a session begun so far: text_chat calls after the opening one
Turns(r) == r.genCalls - 1

\* the callback returns: the history of the phase is over
Return(r) == [r EXCEPT !.hpc = "idle", !.player_action = <<>>, !.marks = {}]

\* a callback that takes every message for an action
AfterStripAlwaysThinking(a) == "send_thinking"

\* lines 137-142: where the callback goes with the stripped message a
AfterStrip(a) == IF a = <<>> THEN "send_empty" ELSE "send_thinking"

\* lines 127-142: a message arrives while the waiter's future is pending and no
\* callback of this session is running; runs up to the first await
HandleInput(s, m) ==
    LET r == session[s]
        present == Contains(active_game_sessions, r.owner)
    IN  /\ r.pc = "waiting" /\ r.fut = "pending" /\ r.hpc = "idle"
        /\ (present /\ AfterStrip(Strip(m)) = "send_thinking") => Turns(r) < MaxTurns
        /\ IF ~present
           THEN \* 129-132
                /\ Step(s, Return([r EXCEPT !.fut = Stop(@)]))
                /\ UNCHANGED << active_game_sessions, placedBy >>
           ELSE \* 134-142
                /\ active_game_sessions' = [active_game_sessions EXCEPT ![r.owner] = s]
                /\ placedBy' = [placedBy EXCEPT ![r.owner] = s]
                /\ Step(s, [r EXCEPT !.player_action = Strip(m),
                                     !.hpc = AfterStrip(Strip(m))])
        /\ Replies(NoReply)
        /\ UNCHANGED observed

\* lines 138-140: the re-prompt has been sent; controller.keep re-arms the window
RepromptSent(s) ==
    /\ session[s].hpc = "send_empty"
    /\ Step(s, Return(session[s]))
    /\ Replies(NoReply)
    /\ UNCHANGED << active_game_sessions, placedBy, observed >>

\* lines 142-146: the "thinking" notice has been sent; the action is appended and
\* text_chat is called
ThinkingSent(s) ==
    /\ session[s].hpc = "send_thinking"
    /\ Step(s, [session[s] EXCEPT
                   !.ctx = Append(@, Msg("user", session[s].player_action)),
                   !.genCalls = @ + 1,
                   !.player_action = <<>>,
                   !.hpc = "llm"])
    /\ Replies(NoReply)
    /\ UNCHANGED << active_game_sessions, placedBy, observed >>

\* line 142 raises: the exception leaves the callback (it is outside the try of
\* line 145) and ends the waiter
ThinkingFails(s) ==
    /\ session[s].hpc = "send_thinking"
    /\ Step(s, Return([session[s] EXCEPT !.fut = StopWithError(@)]))
    /\ Replies(NoReply)
    /\ UNCHANGED << active_game_sessions, placedBy, observed >>

\* position of the callback after text_chat raised (line 173)
OnGenFailure == "send_fail"

\* lines 146-157 and 173-175: text_chat returns or raises
GenReturns(s) ==
    /\ session[s].hpc = "llm"
    /\ \E ok \in BOOLEAN :
          IF ok
          THEN LET r == [session[s] EXCEPT
                            !.ctx = WithReply(@, StoryText)]
               IN  IF ~Contains(active_game_sessions, r.owner)
                   THEN \* 154-157: the result is dropped
                        Step(s, Return([r EXCEPT !.fut = Stop(@)]))
                   ELSE Step(s, [r EXCEPT !.hpc = "send_story"])
          ELSE Step(s, [session[s] EXCEPT !.hpc = OnGenFailure])
    /\ Replies(NoReply)
    /\ UNCHANGED << active_game_sessions, placedBy, observed >>

\* lines 159-171: the story is sent (image, or text when rendering fails), then
\* controller.keep re-arms the window
StorySent(s) ==
    /\ session[s].hpc = "send_story"
    /\ Step(s, Return([session[s] EXCEPT !.stories = @ + 1]))
    /\ Replies(NoReply)
    /\ UNCHANGED << active_game_sessions, placedBy, observed >>

\* lines 176-177: the failure path removes the user's entry if there is one
FailureCleanup(d, u) == IF Contains(d, u) THEN Del(d, u) ELSE d

\* a failure path that leaves the waiter running
AfterFailureKeep(f) == f

\* line 178: the failure path stops the waiter
AfterFailure(f) == Stop(f)

\* lines 175-178: the failure notice has been sent; entry removed, waiter stopped
FailNoticeSent(s) ==
    /\ session[s].hpc = "send_fail"
    /\ active_game_sessions' = FailureCleanup(active_game_sessions, session[s].owner)
    /\ placedBy' = Writers(placedBy, active_game_sessions')
    /\ Step(s, Return([session[s] EXCEPT !.notices = Append(@, "fail"),
                                         !.fut = AfterFailure(@)]))
    /\ Replies(NoReply)
    /\ UNCHANGED observed

(***************************************************************************)
(* start_adventure, from the awaited waiter to the end                     *)
(***************************************************************************)

\* line 124: the window armed at registration or by the last keep() expires;
\* the timer runs on its own, also while a callback is being executed
Timeout(s) ==
    /\ session[s].pc = "waiting" /\ session[s].fut = "pending"
    /\ Step(s, [session[s] EXCEPT !.fut = "timeout"])
    /\ Replies(NoReply)
    /\ UNCHANGED << active_game_sessions, placedBy, observed >>

\* a finally block that deletes the key without looking for it
FinalCleanupUnguarded(d, u) == Del(d, u)

\* lines 189-191: the finally block removes the user's entry if there is one
FinalCleanup(d, u) == IF Contains(d, u) THEN Del(d, u) ELSE d

\* a start_adventure without the handler of asyncio.TimeoutError
AfterWaiterGeneric(f) == IF f \in {"timeout", "error"} THEN "error_notice" ELSE "finally"

\* lines 183-188: where start_adventure continues when the awaited waiter ends
AfterWaiter(f) ==
    CASE f = "timeout" -> "timeout_notice"
      [] f = "error" -> "error_notice"
      [] OTHER -> "finally"

\* line 183 returns or raises; a normal return runs the finally block at once
WaiterEnds(s) ==
    /\ session[s].pc = "waiting"
    /\ session[s].fut \in {"result", "timeout", "error"}
    /\ IF AfterWaiter(session[s].fut) = "finally"
       THEN /\ active_game_sessions' =
                  FinalCleanup(active_game_sessions, session[s].owner)
            /\ placedBy' = Writers(placedBy, active_game_sessions')
            /\ Step(s, [session[s] EXCEPT !.pc = "done"])
       ELSE /\ Step(s, [session[s] EXCEPT !.pc = AfterWaiter(session[s].fut)])
            /\ UNCHANGED << active_game_sessions, placedBy >>
    /\ Replies(NoReply)
    /\ UNCHANGED observed

\* the notice yielded at line 185 or 188
ClosingNotice(p) == IF p = "timeout_notice" THEN "timeout" ELSE "error"

\* lines 185/188 yielded their notice; then the finally block (189-193)
NoticeYielded(s) ==
    /\ session[s].pc \in {"timeout_notice", "error_notice"}
    /\ active_game_sessions' = FinalCleanup(active_game_sessions, session[s].owner)
    /\ placedBy' = Writers(placedBy, active_game_sessions')
    /\ Step(s, [session[s] EXCEPT !.notices = Append(@, ClosingNotice(session[s].pc)),
                                  !.pc = "done"])
    /\ Replies(NoReply)
    /\ UNCHANGED observed

(***************************************************************************)
(* the stop commands                                                       *)
(***************************************************************************)

\* session s is suspended waiting for a message and the entry c of user u is the
\* one s wrote (its placeholder or its controller)
AwaitingInput(s, u, c) ==
    /\ session[s].owner = u /\ session[s].pc = "waiting"
    /\ session[s].fut = "pending" /\ session[s].hpc = "idle"
    /\ (c = s \/ (c = None /\ placedBy[u] = s))

\* history marks of a stop command of user u that found the entry c
StopMarks(s, u, c, inGen, inWait) ==
    IF "stops" \in observed
    THEN session[s].marks
            \cup (IF c = s /\ session[s].hpc = "llm" THEN {inGen} ELSE {})
            \cup (IF AwaitingInput(s, u, c) THEN {inWait} ELSE {})
    ELSE session[s].marks

\* `if controller: controller.stop()` for the entry c, seen from session s
StopIfController(s, c) ==
    IF IsController(c) /\ c = s THEN Stop(session[s].fut) ELSE session[s].fut

\* lines 200-212: /结束冒险
EndAdventure(u) ==
    /\ IF Contains(active_game_sessions, u)
       THEN /\ session' = [s \in Sessions |-> [session[s] EXCEPT
                  !.fut = StopIfController(s, active_game_sessions[u]),
                  !.marks = StopMarks(s, u, active_game_sessions[u],
                                      "gstop_gen", "gstop_wait")]]
            /\ Replies(Reply(u, "stop_sent", 0))
       ELSE /\ Replies(Reply(u, "no_adventure", 0))
            /\ UNCHANGED session
    /\ UNCHANGED << active_game_sessions, placedBy, observed >>

\* lines 219-232: /强制结束冒险
ForceEndAdventure(u) ==
    /\ IF Contains(active_game_sessions, u)
       THEN /\ active_game_sessions' = Pop(active_game_sessions, u)
            /\ placedBy' = Writers(placedBy, active_game_sessions')
            /\ session' = [s \in Sessions |-> [session[s] EXCEPT
                  !.fut = StopIfController(s, active_game_sessions[u]),
                  !.marks = StopMarks(s, u, active_game_sessions[u],
                                      "fstop_gen", "fstop_wait")]]
            /\ Replies(Reply(u, "force_done", 0))
       ELSE /\ Replies(Reply(u, "no_adventure", 0))
            /\ UNCHANGED << active_game_sessions, placedBy, session >>
    /\ UNCHANGED observed

\* a count of the signalled controllers only
SizeOfControllers(d) == Cardinality({u \in Users : IsController(d[u])})

\* len(self.active_game_sessions)
Size(d) == Cardinality({u \in Users : Contains(d, u)})

\* a handler that does not look at the sender's role
IsAdminIgnored(admin) == TRUE

\* line 240: event.is_admin()
IsAdmin(admin) == admin

\* lines 240-261: /admin end
AdminEndAll(u, admin) ==
    /\ IF ~IsAdmin(admin)
       THEN /\ Replies(Reply(u, "denied", 0))
            /\ UNCHANGED << active_game_sessions, placedBy, session >>
       ELSE IF Size(active_game_sessions) = 0
       THEN /\ Replies(Reply(u, "none_active", 0))
            /\ UNCHANGED << active_game_sessions, placedBy, session >>
       ELSE /\ session' = [s \in Sessions |-> [session[s] EXCEPT
                  !.fut = IF \E v \in Users : active_game_sessions[v] = s
                          THEN Stop(@) ELSE @,
                  !.marks = IF "stops" \in observed
                               /\ \E v \in Users : active_game_sessions[v] = s
                               /\ session[s].hpc = "llm"
                            THEN @ \cup {"astop_gen"} ELSE @]]
            /\ active_game_sessions' = [v \in Users |-> NoEntry]
            /\ placedBy' = Writers(placedBy, active_game_sessions')
            /\ Replies(Reply(u, "ended_all", Size(active_game_sessions)))
    /\ UNCHANGED observed

Next ==
    \/ \E u \in Users : StartRefused(u)
    \/ \E s \in Sessions, u \in Users : StartAccepted(s, u)
    \/ \E s \in Sessions : StartOpening(s)
    \/ \E s \in Sessions : OpeningReturns(s)
    \/ \E s \in Sessions : EnterLoop(s)
    \/ \E s \in Sessions, m \in Messages : HandleInput(s, m)
    \/ \E s \in Sessions : RepromptSent(s)
    \/ \E s \in Sessions : ThinkingSent(s)
    \/ \E s \in Sessions : ThinkingFails(s)
    \/ \E s \in Sessions : GenReturns(s)
    \/ \E s \in Sessions : StorySent(s)
    \/ \E s \in Sessions : FailNoticeSent(s)
    \/ \E s \in Sessions : Timeout(s)
    \/ \E s \in Sessions : WaiterEnds(s)
    \/ \E s \in Sessions : NoticeYielded(s)
    \/ \E u \in Users : EndAdventure(u)
    \/ \E u \in Users : ForceEndAdventure(u)
    \/ \E u \in Users, admin \in BOOLEAN : AdminEndAll(u, admin)

\* the program
Spec == Init /\ [][Next]_vars

\* the program with the stop commands' history recorded
SpecStops == InitWith({"stops"}) /\ [][Next]_vars

\* the program with the commands' replies recorded
SpecReplies == InitWith({"replies"}) /\ [][Next]_vars

TypeOK ==
    /\ active_game_sessions \in [Users -> {NoEntry, None, KeyError} \cup Sessions]
    /\ \A s \in Sessions :
          /\ session[s].owner \in Users \cup {"nobody"}
          /\ session[s].genCalls \in 0..(MaxTurns + 1)
          /\ Len(session[s].ctx) <= 3 + 2 * MaxTurns

(***************************************************************************)
(* Properties                                                              *)
(***************************************************************************)

\* the turn loop of session s exists: its waiter is registered and awaited
InTurnLoop(s) == session[s].pc = "waiting"

\* start_adventure of session s was accepted and has not ended
Running(s) == session[s].pc \notin {"idle", "done", "aborted"}

\* a message was delivered for a session in the step from r to r2
DeliveredIn(r, r2) ==
    \/ r2.stories > r.stories
    \/ Len(r2.notices) > Len(r.notices)

\* C1: concurrent start commands of one user: exactly one starts a session, so
\* at no time do two turn loops exist for the same user.
C1_OneTurnLoopPerUser ==
    \A s, t \in Sessions :
        (s # t /\ InTurnLoop(s) /\ InTurnLoop(t)) => session[s].owner # session[t].owner

\* C2: once a forced stop of user u was acknowledged while a generator call of
\* u's session was in flight, no message of that session is delivered.
C2_NoDeliveryAfterForcedStop ==
    [][ \A s \in Sessions :
           "fstop_gen" \in session[s].marks => ~DeliveredIn(session[s], session'[s]) ]_vars

\* C3: a generator call that is in flight when a graceful stop is issued is
\* allowed to finish and its successful result is delivered, not dropped; and
\* the graceful stop itself removes no entry.
C3_GracefulStopDeliversResult ==
    [][ /\ \A s \in Sessions :
              ( /\ session[s].marks = {"gstop_gen"}
                /\ session[s].hpc = "llm"
                /\ session'[s].hpc # "llm" )
              => session'[s].hpc \in {"send_story", OnGenFailure}
        /\ (\E s \in Sessions : "gstop_gen" \in session'[s].marks \ session[s].marks)
              => active_game_sessions' = active_game_sessions ]_vars

\* C4: a graceful or forced stop acknowledged while the session waits for input
\* ends the wait: no timeout follows and no later message starts a turn,
\* whether the entry was the placeholder or a controller.
C4_StopEndsTheWait ==
    \A s \in Sessions :
        (session[s].marks \cap {"gstop_wait", "fstop_wait"} # {})
        => /\ session[s].fut # "timeout"
           /\ session[s].hpc \notin {"send_thinking", "llm", "send_story", "send_fail"}

\* C5: a message that begins with the command prefix is never taken as a player
\* action: it is not appended to the transcript and starts no generator call.
C5_CommandsNeverEnterTranscript ==
    \A s \in Sessions :
        /\ ~IsCommand(session[s].player_action)
        /\ \A i \in DOMAIN session[s].ctx : ~IsCommand(session[s].ctx[i].content)

\* C6: the generator call of a turn is issued only while the user is in the
\* dictionary.
C6_TurnCallOnlyWhilePresent ==
    [][ \A s \in Sessions :
           (session[s].hpc = "send_thinking" /\ session'[s].hpc = "llm")
           => Contains(active_game_sessions, session[s].owner) ]_vars

\* C7: from the acceptance of a start command until its session has ended the
\* dictionary holds an entry for the user, already during the opening call.
C7_EntryFromAcceptance ==
    \A s \in Sessions :
        Running(s) => Contains(active_game_sessions, session[s].owner)

\* C8: every entry of the dictionary was written by a session whose turn loop
\* has not terminated (a terminated session leaves no entry behind), and no
\* removal ever hits a missing key.
C8_NoEntryOfTerminatedSession ==
    \A u \in Users :
        /\ active_game_sessions[u] # KeyError
        /\ Contains(active_game_sessions, u)
           => /\ placedBy[u] \in Sessions
              /\ session[placedBy[u]].owner = u
              /\ session[placedBy[u]].pc \in {"waiting", "timeout_notice", "error_notice"}

\* C8 witness: a session ended after a generator failure, where the failure path
\* and the finally block both ran their removal, and the dictionary is empty
C8_Witness ==
    \E s \in Sessions :
        /\ session[s].pc = "done" /\ session[s].notices = <<"fail">>
        /\ \A u \in Users : ~Contains(active_game_sessions, u)

\* occurrences of the notice n in the notices ns
Count(ns, n) == Cardinality({i \in DOMAIN ns : ns[i] = n})

\* C9: when the window expires while the session waits for input (no callback
\* running), the session ends: no callback runs and no generator call is made
\* afterwards, the timeout notice is delivered exactly once, and when
\* start_adventure ends the user has no entry.
C9_TimeoutEndsSession ==
    [][ \A s \in Sessions :
           LET r == session[s]
               r2 == session'[s]
           IN  /\ (r.fut = "timeout" /\ r.hpc = "idle")
                     => /\ r2.hpc = "idle" /\ r2.genCalls <= r.genCalls
                        /\ r2.stories <= r.stories
                        /\ r2.pc \in {"waiting", "timeout_notice", "done"}
                        /\ r2.pc = "done" =>
                              /\ Count(r2.notices, "timeout") = 1
                              /\ ~Contains(active_game_sessions', r.owner)
               /\ r.pc = "timeout_notice" => r.fut = "timeout"
               /\ Count(r2.notices, "timeout") <= 1 ]_vars

\* C9 witness: a session has ended with the timeout notice
C9_Witness ==
    \E s \in Sessions : session[s].pc = "done" /\ session[s].notices = <<"timeout">>

\* C10: when the generator call of a turn fails there is no second call, the
\* failure notice is delivered once, the waiter is stopped and the user's entry
\* is removed (a start of that user would pass the duplicate check); afterwards
\* the session runs no callback and delivers no story, it only ends.
C10_GeneratorFailureIsTerminal ==
    [][ \A s \in Sessions :
           LET r == session[s]
               r2 == session'[s]
           IN  /\ r.hpc = "send_fail"
                     => /\ r2.hpc \in {"send_fail", "idle"}
                        /\ r2.genCalls <= r.genCalls
                        /\ r2.hpc = "idle" =>
                              /\ r2.notices = Append(r.notices, "fail")
                              /\ r2.fut # "pending"
                              /\ ~Contains(active_game_sessions', r.owner)
               /\ Count(r.notices, "fail") > 0
                     => /\ r2.hpc = "idle" /\ r2.fut # "pending"
                        /\ r2.genCalls <= r.genCalls
                        /\ r2.stories <= r.stories
                        /\ Count(r2.notices, "fail") = 1
                        /\ r2.pc \in {r.pc, "timeout_notice", "done"} ]_vars

\* C10 witness: the failure notice was delivered, the waiter is stopped and the
\* user has no entry while start_adventure has not yet resumed
C10_Witness ==
    \E s \in Sessions :
        /\ session[s].notices = <<"fail">> /\ session[s].pc = "waiting"
        /\ session[s].fut = "result"
        /\ ~Contains(active_game_sessions, session[s].owner)

\* C11: when the opening call fails or no provider is available, start delivers
\* its error message and ends without ever arming a waiter, and right after it
\* the dictionary holds no entry for the user.
C11_FailedStartLeavesNoEntry ==
    [][ \A s \in Sessions :
           (session[s].pc # "aborted" /\ session'[s].pc = "aborted")
           => /\ session[s].pc \in {"disclaimer", "llm_open"}
              /\ session[s].fut = "none" /\ session'[s].fut = "none"
              /\ session'[s].notices = <<"start_error">>
              /\ ~Contains(active_game_sessions', session[s].owner) ]_vars

\* the step is the reply of a command: some handler yielded the text x to user u
Told(u, x) == reply'.to = u /\ reply'.text = x

\* the step changes nothing but the reply
OnlyReplies == UNCHANGED << active_game_sessions, session, placedBy >>

\* C12: a start command of a user who has an entry, placeholder or controller,
\* is refused with the duplicate message and changes nothing else; a start is
\* accepted only for a user without an entry.
C12_DuplicateStartRefused ==
    [][ \A u \in Users :
           /\ Told(u, "duplicate") => (Contains(active_game_sessions, u) /\ OnlyReplies)
           /\ Told(u, "disclaimer") => ~Contains(active_game_sessions, u)
           /\ (Contains(active_game_sessions, u) /\ Contains(active_game_sessions', u))
                 => \A s \in Sessions :
                       (session[s].pc = "idle" /\ session'[s].pc # "idle")
                       => session'[s].owner # u ]_vars

\* C12 witness: a start was refused while the user's session is in its turn loop
\* with a generator call in flight
C12_Witness ==
    /\ reply.text = "duplicate"
    /\ \E s \in Sessions :
          /\ session[s].owner = reply.to /\ session[s].hpc = "llm"
          /\ active_game_sessions[reply.to] = s

\* C13: a stop-all command of a sender who is no administrator is answered with
\* the permission error and changes nothing: no entry is removed and no
\* waiter is stopped.
C13_NonAdminStopsNothing ==
    [][ \A u \in Users :
           /\ AdminEndAll(u, FALSE)
                 => (reply'.to = u /\ reply'.text = "denied" /\ OnlyReplies)
           /\ Told(u, "denied") => OnlyReplies ]_vars

\* C13 witness: the permission error was given while a session with a controller
\* in the dictionary is in a generator call
C13_Witness ==
    /\ reply.text = "denied"
    /\ \E s \in Sessions :
          /\ session[s].hpc = "llm" /\ session[s].fut = "pending"
          /\ active_game_sessions[session[s].owner] = s

\* session s has its controller in the dictionary d
Registered(d, s) == \E v \in Users : d[v] = s

\* C14: a stop-all command of an administrator stops the waiter of every
\* controller in the dictionary and removes every entry: the dictionary is
\* empty afterwards, the reported count is the number of entries removed, no
\* other session is touched, and no removal ever fails on a missing key.
C14_StopAllEmptiesDictionary ==
    [][ /\ \A u \in Users :
              /\ AdminEndAll(u, TRUE)
                    => /\ \A v \in Users : ~Contains(active_game_sessions', v)
                       /\ reply'.to = u
                       /\ IF Size(active_game_sessions) = 0
                          THEN reply'.text = "none_active" /\ OnlyReplies
                          ELSE /\ reply'.text = "ended_all"
                               /\ reply'.n = Size(active_game_sessions)
                       /\ \A s \in Sessions :
                             IF Registered(active_game_sessions, s)
                             THEN session'[s].fut # "pending"
                             ELSE session'[s] = session[s]
              /\ Told(u, "ended_all")
                    => /\ reply'.n = Size(active_game_sessions) /\ reply'.n > 0
                       /\ \A v \in Users : ~Contains(active_game_sessions', v)
        /\ \A v \in Users : active_game_sessions'[v] # KeyError ]_vars

\* C14 witness: stop-all removed two entries, the placeholder of one session and
\* the controller of another, whose waiter is stopped while its own cleanup
\* is still to come
C14_Witness ==
    /\ reply.text = "ended_all" /\ reply.n = 2
    /\ \A v \in Users : ~Contains(active_game_sessions, v)
    /\ \E s, t \in Sessions :
          /\ session[s].pc = "waiting" /\ session[s].fut = "result"
          /\ session[t].pc = "waiting" /\ session[t].fut = "pending"
          /\ session[s].owner # session[t].owner

\* C15: a graceful stop or forced stop of a user without entry, and a stop-all
\* on an empty dictionary, change nothing and tell the caller that there is
\* no adventure; and each stop command, issued again right after itself,
\* changes nothing more: after a graceful stop a second one finds every
\* waiter it would stop already stopped, after a forced stop or a stop-all
\* the second one finds no entry.
C15_StopsWithoutEntryAreNoOps ==
    [][ \A u \in Users :
           /\ Told(u, "no_adventure")
                 => (~Contains(active_game_sessions, u) /\ OnlyReplies)
           /\ Told(u, "none_active")
                 => (Size(active_game_sessions) = 0 /\ OnlyReplies)
           /\ Told(u, "stop_sent")
                 => /\ Contains(active_game_sessions, u)
                    /\ active_game_sessions' = active_game_sessions
                    /\ \A s \in Sessions :
                          (StopIfController(s, active_game_sessions[u])
                              = session[s].fut)'
           /\ Told(u, "force_done")
                 => (Contains(active_game_sessions, u)
                     /\ ~Contains(active_game_sessions', u))
           /\ Told(u, "ended_all")
                 => (Size(active_game_sessions) > 0
                     /\ Size(active_game_sessions') = 0) ]_vars

\* C15 witness: a stop command was answered "no adventure" while the caller's
\* start_adventure is running but has not yet written its entry
C15_Witness ==
    /\ reply.text = "no_adventure"
    /\ ~Contains(active_game_sessions, reply.to)
    /\ \E s \in Sessions : session[s].owner = reply.to /\ session[s].pc = "llm_open"

\* C16: a forced stop of a user with an entry, placeholder or controller,
\* has removed the entry when it replies: the duplicate check of a start
\* command handled next passes; the waiter of a controller is stopped.
C16_ForcedStopRemovesEntry ==
    [][ \A u \in Users :
           /\ (Contains(active_game_sessions, u) /\ reply'.to = u
               /\ ForceEndAdventure(u))
                 => reply'.text = "force_done"
           /\ Told(u, "force_done")
                 => /\ Contains(active_game_sessions, u)
                    /\ ~IsDuplicate(active_game_sessions', u)
                    /\ \A v \in Users \ {u} :
                          active_game_sessions'[v] = active_game_sessions[v]
                    /\ \A s \in Sessions :
                          active_game_sessions[u] = s => session'[s].fut # "pending" ]_vars

\* C16 witness: the forced stop removed a placeholder: the session still waits
\* for input, its user has no entry
C16_Witness ==
    /\ reply.text = "force_done"
    /\ ~Contains(active_game_sessions, reply.to)
    /\ \E s \in Sessions :
          /\ session[s].owner = reply.to /\ session[s].pc = "waiting"
          /\ session[s].fut = "pending" /\ session[s].hpc = "idle"

\* a transcript is empty (no game_state) or one system message followed by
\* messages of the roles user, assistant, user, ... in this order
WellFormed(c) ==
    \/ c = <<>>
    \/ /\ c[1].role = "system"
       /\ \A i \in 2..Len(c) : c[i].role = IF i % 2 = 0 THEN "user" ELSE "assistant"

\* the transcript c2 is c with one message appended
Appended(c, c2) == Len(c2) = Len(c) + 1 /\ SubSeq(c2, 1, Len(c)) = c

\* C17: the transcript of a session starts with its one system message and then
\* alternates user, assistant; it is created with the system message and the
\* opening request and afterwards only grows by appending, until the session
\* is over; when the story of a turn is about to be delivered and whenever
\* the session waits for input the transcript has two messages per text_chat
\* call plus the system message, so a successful turn adds exactly two; a
\* message that is empty after stripping adds nothing and no user message is
\* empty.  (Stated of every step that changes the session: the transcript is
\* empty at first.)
C17_TranscriptAlternates ==
    [][ \A s \in Sessions :
           LET r == session[s]
               r2 == session'[s]
           IN  \/ r2 = r
               \/ /\ \/ r2.ctx = r.ctx
                     \/ /\ WellFormed(r2.ctx)
                        /\ \/ r.ctx = <<>> /\ Len(r2.ctx) = 2
                           \/ r.ctx # <<>> /\ Appended(r.ctx, r2.ctx)
                           \/ r2.ctx = <<>> /\ r2.pc \in Ended /\ r2.hpc = "idle"
                        /\ \A i \in DOMAIN r2.ctx :
                              r2.ctx[i].role = "user" => r2.ctx[i].content # <<>>
                  /\ Len(r2.ctx) \in {0, 2 * r2.genCalls, 2 * r2.genCalls + 1}
                  /\ (r2.hpc = "send_story" \/ (r2.pc = "waiting" /\ r2.fut = "pending"
                                                 /\ r2.hpc = "idle"))
                        => Len(r2.ctx) = 2 * r2.genCalls + 1
                  /\ (r2.hpc = "send_empty" \/ r.hpc = "send_empty")
                        => /\ r2.genCalls <= r.genCalls
                           /\ (r2.ctx = r.ctx \/ r2.ctx = <<>>) ]_vars

\* C17 witness: the story of a turn is about to be delivered; the transcript has
\* five messages
C17_Witness ==
    \E s \in Sessions :
        /\ session[s].hpc = "send_story"
        /\ Len(session[s].ctx) = 5 /\ session[s].ctx[5].role = "assistant"

\* C19: a message that is empty after stripping consumes no turn: the callback
\* only writes the controller into the user's entry and re-prompts; the
\* transcript, the count of text_chat calls and the waiter's future are as
\* before, and when the callback returns the dictionary is untouched and the
\* session waits again; only a non-empty action starts a turn.
C19_EmptyInputConsumesNoTurn ==
    [][ \A s \in Sessions :
           LET r == session[s]
               r2 == session'[s]
           IN  \/ r2 = r
               \/ /\ (r.hpc = "idle" /\ r2.hpc = "send_empty")
                        => /\ r2 = [r EXCEPT !.hpc = "send_empty"]
                           /\ r.pc = "waiting" /\ r.fut = "pending"
                           /\ active_game_sessions'[r.owner] = s
                  /\ r.hpc = "send_empty"
                        => /\ r2.hpc \in {"send_empty", "idle"}
                           /\ r2.genCalls <= r.genCalls /\ r2.stories <= r.stories
                           /\ r2.hpc = "idle"
                                 => /\ active_game_sessions' = active_game_sessions
                                    /\ r2 = Settle(Return(r))
                                    /\ r2.pc = r.pc /\ r2.fut \in {r.fut, "none"}
                  /\ r2.hpc = "send_thinking" => r2.player_action # <<>> ]_vars

\* C19 witness: the callback is re-prompting after an empty message; the user is
\* in the dictionary and the waiter is still pending
C19_Witness ==
    \E s \in Sessions :
        /\ session[s].hpc = "send_empty" /\ session[s].fut = "pending"
        /\ session[s].pc = "waiting"
        /\ active_game_sessions[session[s].owner] = s
        /\ Len(session[s].ctx) = 3 /\ session[s].genCalls = 1

\* the steps of session s that need no message and no command: a send, a
\* text_chat call or the awaited waiter completes
Progress(s) ==
    \/ StartOpening(s) \/ OpeningReturns(s) \/ EnterLoop(s) \/ RepromptSent(s)
    \/ ThinkingSent(s) \/ GenReturns(s) \/ StorySent(s) \/ FailNoticeSent(s)
    \/ WaiterEnds(s) \/ NoticeYielded(s)

\* the program, when every send and every text_chat call completes and every
\* pending window expires unless the waiter is ended before
SpecLive ==
    /\ Init /\ [][Next]_vars
    /\ \A s \in Sessions : WF_vars(Progress(s)) /\ WF_vars(Timeout(s))

\* under SpecLive every accepted start_adventure ends, and then no entry of the
\* dictionary is one that it wrote
AcceptedSessionEnds ==
    \A s \in Sessions :
        Running(s) ~> (session[s].pc \in Ended /\ \A u \in Users : placedBy[u] # s)

\* C18: an accepted session reaches its end, and an ended session is final:
\* once start_adventure of a session has ended, the session processes no
\* input, makes no text_chat call and delivers no message any more.
C18_EndedIsFinal ==
    [][ \A s \in Sessions :
           session[s].pc \in Ended
           => /\ session'[s].pc = session[s].pc
              /\ session'[s].genCalls <= session[s].genCalls
              /\ session'[s].hpc \in {session[s].hpc, "idle", OnGenFailure, "send_story"}
              /\ ~DeliveredIn(session[s], session'[s]) ]_vars

\* session s takes a step of its own without a new message: start_adventure
\* moves or the running callback moves
Moves(s) ==
    \/ session'[s].pc # session[s].pc
    \/ session[s].hpc # "idle" /\ session'[s].hpc # session[s].hpc

\* C20: after a forced stop or a stop-all has removed the entry of a session, no
\* step of that session removes or overwrites an entry that another session
\* wrote, or stops the waiter of another session.
C20_CleanupTouchesOwnEntryOnly ==
    [][ \A s \in Sessions :
           (session[s].marks \cap {"fstop_wait", "fstop_gen", "astop_gen"} # {}
            /\ Moves(s))
           => /\ \A u \in Users :
                    (Contains(active_game_sessions, u) /\ placedBy[u] # s)
                    => active_game_sessions'[u] = active_game_sessions[u]
              /\ \A t \in Sessions \ {s} : session'[t].fut = session[t].fut ]_vars

====
